---- MODULE Spec2Model ----
(***************************************************************************)
(* Conway's Game of Life on a toroidal grid (src/src/main.rs).             *)
(*                                                                         *)
(* World is modelled as a record [cells, width, height]; cells is the      *)
(* Vec<Vec<Cell>> as a function  row index y -> (column index x -> Cell),  *)
(* both 0-based as in the source, so a cell is  self.cells[y][x].          *)
(*                                                                         *)
(* Two specifications share the variables:                                 *)
(*   Spec      drives the World API (new, set, advance) the way a unit     *)
(*             test does: construct, seed any grid, prepare the scratch,   *)
(*             advance repeatedly;                                         *)
(*   SpecMain  is fn main: construct, seed the glider, print, then         *)
(*             sleep / advance / print for the requested generations.      *)
(***************************************************************************)
EXTENDS Integers, Sequences, FiniteSets

VARIABLES
    args,   \* [width, height, generations]: the parsed command line / test input
    pc,     \* position of the driver
    world,  \* the current World (NoWorld before construction)
    tmp,    \* the scratch World
    i,      \* number of advance calls made so far
    pre,    \* history: the World as it was when the last call was an advance
    last,   \* history: the last World method called
    out,    \* sequence of snapshots printed to stdout
    log     \* history: the observable events of main, in order

vars == <<args, pc, world, tmp, i, pre, last, out, log>>

---------------------------------------------------------------------------
(* Bounds of the model *)

\* Spec: width and height are drawn from 0..MaxDim
MaxDim == 3
\* Spec: at most this many advance calls
MaxAdvances == 2
\* SpecMain: width and height arguments are drawn from 0..MaxMainDim
MaxMainDim == 6
\* SpecMain: the generations argument is drawn from 0..MaxGenerations
MaxGenerations == 4

---------------------------------------------------------------------------
(* enum Cell *)

Cell == {"Dead", "Live"}

\* Cell::n
N(c) == IF c = "Dead" THEN 0 ELSE 1

---------------------------------------------------------------------------
(* struct World *)

NoWorld == [cells |-> <<>>, width |-> 0, height |-> 0]

\* a faulty variant of NewRejects: && written for ||
NewRejectsBoth(width, height) == width < 3 /\ height < 3

\* a faulty variant of NewRejects: the limit off by one, 2x2 accepted
NewRejectsBelowTwo(width, height) == width < 2 \/ height < 2

\* World::new, the validation: if width < 3 || height < 3
NewRejects(width, height) == width < 3 \/ height < 3

\* vec![vec![Cell::Dead; width]; height]
DeadCells(width, height) ==
    [y \in 0 .. height - 1 |-> [x \in 0 .. width - 1 |-> "Dead"]]

\* World::new
New(width, height) ==
    IF NewRejects(width, height)
    THEN [ok |-> FALSE, err |-> "the world cannot be smaller than 3x3", world |-> NoWorld]
    ELSE [ok |-> TRUE, err |-> "",
          world |-> [cells |-> DeadCells(width, height), width |-> width, height |-> height]]

\* let t = if y == 0 { self.height - 1 } else { y - 1 };
T(self, y) == IF y = 0 THEN self.height - 1 ELSE y - 1
\* let b = if y == self.height - 1 { 0 } else { y + 1 };
B(self, y) == IF y = self.height - 1 THEN 0 ELSE y + 1
\* let l = if x == 0 { self.width - 1 } else { x - 1 };
L(self, x) == IF x = 0 THEN self.width - 1 ELSE x - 1
\* let r = if x == self.width - 1 { 0 } else { x + 1 };
R(self, x) == IF x = self.width - 1 THEN 0 ELSE x + 1

\* a faulty variant of CountNeighbors: the left column clamps at x = 0 instead of wrapping
CountNeighborsClamped(self, x, y) ==
    LET t == T(self, y)
        b == B(self, y)
        l == IF x = 0 THEN 0 ELSE x - 1
        r == R(self, x)
    IN  N(self.cells[t][l]) +
        N(self.cells[t][x]) +
        N(self.cells[t][r]) +
        N(self.cells[y][l]) +
        N(self.cells[y][r]) +
        N(self.cells[b][l]) +
        N(self.cells[b][x]) +
        N(self.cells[b][r])

\* World::count_neighbors (u8: the sum is at most 8, no overflow)
CountNeighbors(self, x, y) ==
    LET t == T(self, y)
        b == B(self, y)
        l == L(self, x)
        r == R(self, x)
    IN  N(self.cells[t][l]) +
        N(self.cells[t][x]) +
        N(self.cells[t][r]) +
        N(self.cells[y][l]) +
        N(self.cells[y][r]) +
        N(self.cells[b][l]) +
        N(self.cells[b][x]) +
        N(self.cells[b][r])

\* The eight (x, y) positions whose cells count_neighbors(x, y) reads, in source order
NeighborReads(self, x, y) ==
    LET t == T(self, y)
        b == B(self, y)
        l == L(self, x)
        r == R(self, x)
    IN  << <<l, t>>, <<x, t>>, <<r, t>>,
           <<l, y>>,           <<r, y>>,
           <<l, b>>, <<x, b>>, <<r, b>> >>

\* Vec indexing self.cells[y][x] is bounds-checked: out of range panics
InRange(self, x, y) ==
    /\ y \in DOMAIN self.cells
    /\ x \in DOMAIN self.cells[y]

\* a faulty variant of Set: Vec::insert at x instead of assignment, the row grows by one
SetInsert(self, x, y, value) ==
    [self EXCEPT !.cells[y] =
        [k \in 0 .. Cardinality(DOMAIN self.cells[y]) |->
            IF k < x THEN self.cells[y][k]
            ELSE IF k = x THEN value
            ELSE self.cells[y][k - 1]]]

\* World::set (for an in-range index)
Set(self, x, y, value) == [self EXCEPT !.cells[y][x] = value]

\* a faulty variant of NewCell: the survival range one too wide (2..=4)
NewCellSurvivesFour(cell, num_neighbors) ==
    CASE cell = "Live" /\ num_neighbors \in 0 .. 1 -> "Dead"
      [] cell = "Live" /\ num_neighbors \in 2 .. 4 -> "Live"
      [] cell = "Live"                             -> "Dead"
      [] cell = "Dead" /\ num_neighbors = 3        -> "Live"
      [] OTHER                                     -> cell

\* the match of advance
NewCell(cell, num_neighbors) ==
    CASE cell = "Live" /\ num_neighbors \in 0 .. 1 -> "Dead"
      [] cell = "Live" /\ num_neighbors \in 2 .. 3 -> "Live"
      [] cell = "Live"                             -> "Dead"
      [] cell = "Dead" /\ num_neighbors = 3        -> "Live"
      [] OTHER                                     -> cell

\* a faulty variant of EvalInto: the scratch is written only when the cell changes
EvalIntoChangedOnly(self, scratch, x, y) ==
    LET new_cell == NewCell(self.cells[y][x], CountNeighbors(self, x, y))
    IN  IF new_cell = self.cells[y][x] THEN scratch ELSE Set(scratch, x, y, new_cell)

\* body of the first loop nest of advance, for one (x, y)
EvalInto(self, scratch, x, y) ==
    Set(scratch, x, y, NewCell(self.cells[y][x], CountNeighbors(self, x, y)))

\* first loop nest of advance: rows in order, cells of a row in order;
\* k enumerates the cells row-major
RECURSIVE Evaluate(_, _, _)
Evaluate(self, scratch, k) ==
    IF k >= self.width * self.height THEN scratch
    ELSE Evaluate(self,
                  EvalInto(self, scratch, k % self.width, k \div self.width),
                  k + 1)

\* second loop nest of advance: *cell = tmp.cells[y][x] over self's own cells
CopyBack(self, scratch) ==
    [self EXCEPT !.cells =
        [y \in DOMAIN self.cells |->
            [x \in DOMAIN self.cells[y] |-> scratch.cells[y][x]]]]

\* single-buffer update: each cell is evaluated against, and written into, self
RECURSIVE EvaluateInPlace(_, _)
EvaluateInPlace(self, k) ==
    IF k >= self.width * self.height THEN self
    ELSE EvaluateInPlace(EvalInto(self, self, k % self.width, k \div self.width), k + 1)

\* a faulty variant of Advance: the update is done in place, the scratch is not used
AdvanceInPlace(self, scratch) ==
    [self |-> EvaluateInPlace(self, 0), tmp |-> scratch]

\* a faulty variant of Advance: the first loop starts at the second cell, so cell (0, 0)
\* of the scratch keeps what it held
AdvanceSkipsFirst(self, scratch) ==
    LET t2 == Evaluate(self, scratch, 1)
    IN  [self |-> CopyBack(self, t2), tmp |-> t2]

\* World::advance: the pair (self, tmp) after the call
Advance(self, scratch) ==
    LET t2 == Evaluate(self, scratch, 0)
    IN  [self |-> CopyBack(self, t2), tmp |-> t2]

Symbol(cell) == IF cell = "Dead" THEN "." ELSE "O"

RECURSIVE RowString(_, _)
RowString(row, x) ==
    IF x \notin DOMAIN row THEN <<"\n">>
    ELSE <<Symbol(row[x])>> \o RowString(row, x + 1)

RECURSIVE RowsString(_, _)
RowsString(cells, y) ==
    IF y \notin DOMAIN cells THEN <<>>
    ELSE RowString(cells[y], 0) \o RowsString(cells, y + 1)

\* World::as_string, as the sequence of its characters
AsString(self) == RowsString(self.cells, 0)

---------------------------------------------------------------------------
(* Spec: a driver of the World API *)

Init ==
    /\ args \in [width : 0 .. MaxDim, height : 0 .. MaxDim, generations : {0}]
    /\ pc = "new"
    /\ world = NoWorld
    /\ tmp = NoWorld
    /\ i = 0
    /\ pre = NoWorld
    /\ last = "none"
    /\ out = <<>>
    /\ log = <<>>

\* World::new(width, height) and the scratch clone
ApiNew ==
    /\ pc = "new"
    /\ LET res == New(args.width, args.height)
       IN  /\ pc' = IF res.ok THEN "setup" ELSE "err"
           /\ world' = res.world
           /\ tmp' = res.world
    /\ last' = "new"
    /\ UNCHANGED <<args, i, pre, out, log>>

\* world.set(x, y, value) with an in-range index
ApiSet ==
    /\ pc = "setup"
    /\ \E x \in 0 .. world.width - 1, y \in 0 .. world.height - 1, value \in Cell :
          world' = Set(world, x, y, value)
    /\ last' = "set"
    /\ UNCHANGED <<args, pc, tmp, i, pre, out, log>>

\* tmp.set(x, y, value) for every cell: the scratch holds garbage of one kind
ApiFillTmp ==
    /\ pc = "setup"
    /\ \E value \in Cell :
          tmp' = [tmp EXCEPT !.cells =
                     [y \in DOMAIN tmp.cells |-> [x \in DOMAIN tmp.cells[y] |-> value]]]
    /\ last' = "set"
    /\ UNCHANGED <<args, pc, world, i, pre, out, log>>

\* world.advance(&mut tmp)
ApiAdvance ==
    /\ pc \in {"setup", "run"}
    /\ i < MaxAdvances
    /\ LET res == Advance(world, tmp)
       IN  /\ world' = res.self
           /\ tmp' = res.tmp
    /\ pre' = world
    /\ i' = i + 1
    /\ pc' = "run"
    /\ last' = "advance"
    /\ UNCHANGED <<args, out, log>>

Next == ApiNew \/ ApiSet \/ ApiFillTmp \/ ApiAdvance

Spec == Init /\ [][Next]_vars

---------------------------------------------------------------------------
(* SpecMain: fn main *)

\* a faulty variant of Mid: the midpoint rounded up
MidRoundedUp(n) == (n + 1) \div 2

\* let mx = width / 2;  let my = height / 2;  (usize division truncates)
Mid(n) == n \div 2

\* the five world.set(.., .., Cell::Live) calls of main, in order, as (x, y);
\* a usize subtraction that underflows shows here as a negative index, which
\* is out of range like the wrapped or panicking value the build produces
GliderCalls(width, height) ==
    LET mx == Mid(width)
        my == Mid(height)
    IN  << <<mx + 1, my - 1>>,
           <<mx - 1, my>>,
           <<mx + 1, my>>,
           <<mx, my + 1>>,
           <<mx + 1, my + 1>> >>

\* the seeding calls from the k-th on; an out-of-range index panics
RECURSIVE SeedFrom(_, _, _)
SeedFrom(self, calls, k) ==
    IF k > Len(calls) THEN [ok |-> TRUE, world |-> self]
    ELSE IF ~InRange(self, calls[k][1], calls[k][2]) THEN [ok |-> FALSE, world |-> self]
    ELSE SeedFrom(Set(self, calls[k][1], calls[k][2], "Live"), calls, k + 1)

\* println!("{}", world.as_string()): the rendering and println's own newline
Printed(self) == AsString(self) \o <<"\n">>

\* a faulty variant of LoopContinues: 0..=generations
LoopContinuesInclusive(done, generations) == done <= generations

\* for _ in 0..generations, with i iterations completed
LoopContinues(done, generations) == done < generations

InitMain ==
    /\ args \in [width : 0 .. MaxMainDim, height : 0 .. MaxMainDim,
                 generations : 0 .. MaxGenerations]
    /\ pc = "start"
    /\ world = NoWorld
    /\ tmp = NoWorld
    /\ i = 0
    /\ pre = NoWorld
    /\ last = "none"
    /\ out = <<>>
    /\ log = <<>>

\* let mut world = World::new(width, height)?;  let mut tmp = world.clone();
MainNew ==
    /\ pc = "start"
    /\ LET res == New(args.width, args.height)
       IN  /\ pc' = IF res.ok THEN "seed" ELSE "exit_err"
           /\ world' = res.world
           /\ tmp' = res.world
    /\ last' = "new"
    /\ UNCHANGED <<args, i, pre, out, log>>

\* create a glider
MainSeed ==
    /\ pc = "seed"
    /\ LET res == SeedFrom(world, GliderCalls(args.width, args.height), 1)
       IN  /\ pc' = IF res.ok THEN "print0" ELSE "panic"
           /\ world' = res.world
    /\ last' = "set"
    /\ UNCHANGED <<args, tmp, i, pre, out, log>>

\* the println! before the loop
MainPrintInitial ==
    /\ pc = "print0"
    /\ out' = Append(out, Printed(world))
    /\ log' = Append(log, "print")
    /\ pc' = "loop"
    /\ UNCHANGED <<args, world, tmp, i, pre, last>>

\* std::thread::sleep(Duration::from_millis(delay))
MainSleep ==
    /\ pc = "loop"
    /\ LoopContinues(i, args.generations)
    /\ log' = Append(log, "sleep")
    /\ pc' = "advance"
    /\ UNCHANGED <<args, world, tmp, i, pre, last, out>>

\* world.advance(&mut tmp)
MainAdvance ==
    /\ pc = "advance"
    /\ LET res == Advance(world, tmp)
       IN  /\ world' = res.self
           /\ tmp' = res.tmp
    /\ pre' = world
    /\ i' = i + 1
    /\ last' = "advance"
    /\ log' = Append(log, "advance")
    /\ pc' = "print"
    /\ UNCHANGED <<args, out>>

\* the println! of the loop body
MainPrint ==
    /\ pc = "print"
    /\ out' = Append(out, Printed(world))
    /\ log' = Append(log, "print")
    /\ pc' = "loop"
    /\ UNCHANGED <<args, world, tmp, i, pre, last>>

\* Ok(())
MainExit ==
    /\ pc = "loop"
    /\ ~LoopContinues(i, args.generations)
    /\ pc' = "exit_ok"
    /\ UNCHANGED <<args, world, tmp, i, pre, last, out, log>>

NextMain ==
    \/ MainNew
    \/ MainSeed
    \/ MainPrintInitial
    \/ MainSleep
    \/ MainAdvance
    \/ MainPrint
    \/ MainExit

SpecMain == InitMain /\ [][NextMain]_vars

---------------------------------------------------------------------------
(* Reference definitions: the Game of Life on a torus, stated with modular  *)
(* arithmetic and sets, independently of the code above                     *)

Positions(g) == (0 .. g.width - 1) \X (0 .. g.height - 1)

At(g, p) == g.cells[p[2]][p[1]]

LiveSet(g) == {p \in Positions(g) : At(g, p) = "Live"}

AllDead(g) == LiveSet(g) = {}

Offsets == ({-1, 0, 1} \X {-1, 0, 1}) \ {<<0, 0>>}

TorusNeighbours(g, x, y) ==
    {<<(x + d[1] + g.width) % g.width, (y + d[2] + g.height) % g.height>> : d \in Offsets}

LiveNeighbours(g, x, y) ==
    Cardinality({p \in TorusNeighbours(g, x, y) : At(g, p) = "Live"})

RuleTable(state, live) ==
    IF state = "Live"
    THEN (IF live \in {2, 3} THEN "Live" ELSE "Dead")
    ELSE (IF live = 3 THEN "Live" ELSE "Dead")

NextGeneration(g) ==
    [g EXCEPT !.cells =
        [y \in 0 .. g.height - 1 |->
            [x \in 0 .. g.width - 1 |->
                RuleTable(g.cells[y][x], LiveNeighbours(g, x, y))]]]

RECURSIVE KthGeneration(_, _)
KthGeneration(g, k) == IF k = 0 THEN g ELSE NextGeneration(KthGeneration(g, k - 1))

WorldOf(width, height, live) ==
    [cells |-> [y \in 0 .. height - 1 |->
                   [x \in 0 .. width - 1 |->
                       IF <<x, y>> \in live THEN "Live" ELSE "Dead"]],
     width |-> width, height |-> height]

Corners(g) ==
    {<<0, 0>>, <<g.width - 1, 0>>, <<0, g.height - 1>>, <<g.width - 1, g.height - 1>>}

GliderSet(width, height) ==
    LET mx == width \div 2
        my == height \div 2
    IN  {<<mx + 1, my - 1>>, <<mx - 1, my>>, <<mx + 1, my>>,
         <<mx, my + 1>>, <<mx + 1, my + 1>>}

Translated(live, width, height) ==
    {<<(p[1] + 1) % width, (p[2] + 1) % height>> : p \in live}

AllDeadScratch(g) == WorldOf(g.width, g.height, {})

\* the World and its scratch exist (Spec)
Constructed == pc \in {"setup", "run"}

HasShape(g, width, height) ==
    /\ g.width = width
    /\ g.height = height
    /\ DOMAIN g.cells = 0 .. height - 1
    /\ \A y \in DOMAIN g.cells : DOMAIN g.cells[y] = 0 .. width - 1

\* the j-th observable event of a run of main that gets past construction
Event(j) ==
    IF j = 1 THEN "print"
    ELSE CASE (j - 2) % 3 = 0 -> "sleep"
           [] (j - 2) % 3 = 1 -> "advance"
           [] OTHER           -> "print"

---------------------------------------------------------------------------
(* The claims *)

\* C1: after w.advance(scratch) every cell of w holds the rule-table result of
\* its own state and its count of Live toroidal neighbours in the grid as it
\* was before the call; no count sees a cell updated during the same call.
C1_AdvanceAppliesRuleTable ==
    last = "advance" =>
        \A p \in Positions(pre) :
            At(world, p) = RuleTable(At(pre, p), LiveNeighbours(pre, p[1], p[2]))

\* the second of two calls killed every cell of a grid the first had filled,
\* each of them Live with eight Live neighbours
C1_Witness ==
    /\ last = "advance"
    /\ i = 2
    /\ LiveSet(pre) = Positions(pre)
    /\ \A p \in Positions(pre) : LiveNeighbours(pre, p[1], p[2]) = 8
    /\ AllDead(world)

\* C2: count_neighbors(x, y) is in 0..8 and is the number of Live cells among
\* the eight positions ((x+dx) mod width, (y+dy) mod height); with only the
\* four corners Live, count_neighbors(0, 0) = 3.
C2_CountNeighborsIsToroidalCount ==
    pc = "setup" =>
        /\ \A p \in Positions(world) :
              /\ CountNeighbors(world, p[1], p[2]) \in 0 .. 8
              /\ CountNeighbors(world, p[1], p[2]) = LiveNeighbours(world, p[1], p[2])
        /\ LiveSet(world) = Corners(world) => CountNeighbors(world, 0, 0) = 3

\* the four-corners grid
C2_Witness ==
    /\ pc = "setup"
    /\ LiveSet(world) = Corners(world)
    /\ CountNeighbors(world, 0, 0) = 3

\* C3: World::new(width, height) is an error exactly when width < 3 or
\* height < 3; otherwise the World has that width and height and every cell
\* is Dead.
C3_NewValidatesDimensions ==
    /\ pc # "new" => (pc = "err" <=> (args.width < 3 \/ args.height < 3))
    /\ pc = "err" => world = NoWorld
    /\ (pc = "setup" /\ last = "new") =>
          /\ HasShape(world, args.width, args.height)
          /\ AllDead(world)

\* the smallest World, just constructed
C3_Witness ==
    /\ pc = "setup"
    /\ last = "new"
    /\ args.width = 3
    /\ args.height = 3
    /\ Cardinality(Positions(world)) = 9

\* C5: the World after advance does not depend on what the scratch held:
\* a scratch with Live cells and an all-Dead scratch give the same World, and
\* the World after any call, whatever the scratch held from set calls or from
\* an earlier generation, is the one an all-Dead scratch gives; the scratch
\* then holds the new generation in every cell.
C5_ScratchNonInterference ==
    /\ (pc = "setup" /\ tmp # AllDeadScratch(tmp)) =>
          Advance(world, tmp).self = Advance(world, AllDeadScratch(tmp)).self
    /\ last = "advance" =>
          /\ world = Advance(pre, AllDeadScratch(pre)).self
          /\ tmp.cells = world.cells

\* a second call, whose scratch held the previous generation, changed the grid
C5_Witness ==
    /\ last = "advance"
    /\ i = 2
    /\ pre.cells # world.cells
    /\ tmp.cells = world.cells

\* C6: an all-Dead World is all Dead after any number of advance calls,
\* whatever the scratch held.
C6_AllDeadIsFixedPoint ==
    /\ (last = "advance" /\ AllDead(pre)) => AllDead(world)
    /\ (Constructed /\ AllDead(world)) => AllDead(Advance(world, tmp).self)

\* the second of two calls was made on an all-Dead World
C6_Witness ==
    /\ i = 2
    /\ last = "advance"
    /\ AllDead(pre)
    /\ AllDead(world)

\* C7: width, height and the grid's shape (height rows of width cells) of the
\* World and of its scratch never change after construction.
C7_DimensionsNeverChange ==
    Constructed =>
        /\ HasShape(world, args.width, args.height)
        /\ HasShape(tmp, args.width, args.height)

\* set calls, then two advance calls, and the grid is not empty
C7_Witness ==
    /\ i = 2
    /\ last = "advance"
    /\ ~AllDead(world)
    /\ HasShape(world, args.width, args.height)

\* C9: the eight positions count_neighbors(x, y) reads are pairwise distinct,
\* in range, and none is (x, y).  (The positions depend on width and height
\* alone, so every World is covered where it is constructed.)
C9_NeighborReadsDistinct ==
    (pc = "setup" /\ last = "new") =>
        \A p \in Positions(world) :
            LET reads == NeighborReads(world, p[1], p[2])
                read == {reads[k] : k \in 1 .. Len(reads)}
            IN  /\ Len(reads) = 8
                /\ Cardinality(read) = 8
                /\ p \notin read
                /\ read \subseteq Positions(world)

\* the smallest World: each cell's eight reads are the eight other cells
C9_Witness ==
    /\ pc = "setup"
    /\ last = "new"
    /\ world.width = 3
    /\ world.height = 3
    /\ \A p \in Positions(world) :
          {NeighborReads(world, p[1], p[2])[k] : k \in 1 .. 8} = Positions(world) \ {p}

\* C4 as stated: for every accepted width and height, four advance calls
\* translate the seeded glider by (+1, +1) modulo (width, height).
C4_GliderTranslatesOnAnyGrid ==
    (i = 4 /\ last = "advance") =>
        LiveSet(world) =
            Translated(GliderSet(args.width, args.height), args.width, args.height)

\* C4 amended: the same for width >= 5 and height >= 5; on a narrower torus
\* the glider meets its own wrapped image.
C4_GliderTranslates ==
    /\ pc = "print0" => LiveSet(world) = GliderSet(args.width, args.height)
    /\ (i = 4 /\ last = "advance" /\ args.width >= 5 /\ args.height >= 5) =>
          LiveSet(world) =
              Translated(GliderSet(args.width, args.height), args.width, args.height)

\* four generations on the smallest torus the glider fits
C4_Witness ==
    /\ i = 4
    /\ pc = "print"
    /\ args.width = 5
    /\ args.height = 5
    /\ Cardinality(LiveSet(world)) = 5

\* C8: a run with valid dimensions prints the seeded grid, then does exactly
\* `generations` rounds of sleep, advance, print in that order and exits with
\* success, having printed generations + 1 snapshots, the k-th being the k-th
\* generation of the seed; a run with width or height < 3 fails at
\* construction and prints nothing.
C8_MainRunOrder ==
    /\ pc # "start" => (pc = "exit_err" <=> (args.width < 3 \/ args.height < 3))
    /\ pc = "exit_err" => (out = <<>> /\ log = <<>>)
    /\ pc # "panic"
    /\ \A j \in 1 .. Len(log) : log[j] = Event(j)
    /\ Len(log) <= 1 + 3 * args.generations
    /\ Len(out) = Cardinality({j \in 1 .. Len(log) : log[j] = "print"})
    /\ \A k \in 1 .. Len(out) :
          out[k] = Printed(KthGeneration(
                      WorldOf(args.width, args.height,
                              GliderSet(args.width, args.height)), k - 1))
    /\ pc = "exit_ok" =>
          /\ Len(log) = 1 + 3 * args.generations
          /\ Len(out) = args.generations + 1
          /\ i = args.generations
    /\ pc \notin {"exit_ok", "exit_err"} => ENABLED NextMain

\* a run of three generations has exited
C8_Witness ==
    /\ pc = "exit_ok"
    /\ args.generations = 3
    /\ Len(out) = 4
    /\ log = <<"print", "sleep", "advance", "print", "sleep", "advance", "print",
               "sleep", "advance", "print">>

\* C10: for every accepted width and height the five seeding calls of main
\* address in-range, pairwise distinct cells, with no underflow in mx - 1 or
\* my - 1, so the seeded World has exactly five Live cells.
C10_SeedingInRange ==
    /\ pc # "panic"
    /\ pc = "seed" =>
          LET calls == GliderCalls(args.width, args.height)
          IN  /\ \A k \in 1 .. Len(calls) :
                    /\ 0 <= calls[k][1] /\ calls[k][1] < args.width
                    /\ 0 <= calls[k][2] /\ calls[k][2] < args.height
                    /\ InRange(world, calls[k][1], calls[k][2])
              /\ Mid(args.width) - 1 >= 0
              /\ Mid(args.height) - 1 >= 0
              /\ Cardinality({calls[k] : k \in 1 .. Len(calls)}) = 5
    /\ pc = "print0" => Cardinality(LiveSet(world)) = 5

\* the glider seeded on the smallest World
C10_Witness ==
    /\ pc = "print0"
    /\ args.width = 3
    /\ args.height = 3
    /\ Cardinality(LiveSet(world)) = 5

====
